---- MODULE Spec2Model ----
(***************************************************************************)
(* Model of generate_synthetic_dw.py: the schema build, the six dimension  *)
(* loads and the fact generator/loader of the cinema-ticketing warehouse.  *)
(*                                                                         *)
(* Units: a calendar date is its proleptic Gregorian ordinal (Python's     *)
(* date.toordinal()), a wall-clock time is its number of seconds since     *)
(* midnight, a float price is an integer number of thousandths (mills) and *)
(* a price rounded to two decimals is an integer number of cents.  A draw  *)
(* of the random generator is its value u in [0, 1) in thousandths.        *)
(* A table of the store is the sequence of its rows in heap order.         *)
(***************************************************************************)
EXTENDS Integers, Sequences, FiniteSets, TLC

VARIABLES
  pc,        \* position of main() / load_fact(), "done" or "aborted"
  args,      \* the parsed command line: rows, customers, showings, start, end
  db,        \* the committed content of the store
  txn,       \* the store as the open connection sees it (db + uncommitted work)
  pools,     \* load_fact: the key pools read back from the dimensions
  file,      \* the staging file fact_ticket_sales.tsv
  lf,        \* load_fact: ticket_id, tx_id, remaining and the transaction's locals
  twin,      \* a second, independent run of load_fact on the same seed
  dim_rows   \* the rows list a dimension builder is appending to

vars == <<pc, args, db, txn, pools, file, lf, twin, dim_rows>>

(***************************************************************************)
(* Bounds of the model.                                                    *)
(***************************************************************************)
MaxRows == 3
MaxCustomers == 2
MaxShowings == 2
MaxDays == 2
MaxSpan == 8
MaxTickets == 8

(***************************************************************************)
(* Calendar helpers.                                                       *)
(***************************************************************************)
MONTH_NAMES ==
  << "January", "February", "March", "April", "May", "June",
     "July", "August", "September", "October", "November", "December" >>

DaysInMonth == << 31, 28, 31, 30, 31, 30, 31, 31, 30, 31, 30, 31 >>

DaysBeforeMonth == << 0, 31, 59, 90, 120, 151, 181, 212, 243, 273, 304, 334 >>

\* datetime's ordinal -> (year, month, day, day of year)
Ord2Ymd(ord) ==
  LET n0   == ord - 1
      n400 == n0 \div 146097
      r400 == n0 % 146097
      n100 == r400 \div 36524
      r100 == r400 % 36524
      n4   == r100 \div 1461
      r4   == r100 % 1461
      n1   == r4 \div 365
      n    == r4 % 365
      year == n400 * 400 + 1 + n100 * 100 + n4 * 4 + n1
  IN  IF n1 = 4 \/ n100 = 4
      THEN [y |-> year - 1, m |-> 12, d |-> 31, doy |-> 366]
      ELSE
        LET leap    == n1 = 3 /\ (n4 # 24 \/ n100 = 3)
            m0      == (n + 50) \div 32
            before0 == DaysBeforeMonth[m0] + (IF m0 > 2 /\ leap THEN 1 ELSE 0)
            m       == IF before0 > n THEN m0 - 1 ELSE m0
            before  == IF before0 > n
                       THEN before0 - (DaysInMonth[m] + (IF m = 2 /\ leap THEN 1 ELSE 0))
                       ELSE before0
        IN  [y |-> year, m |-> m, d |-> n - before + 1, doy |-> n + 1]

\* date.weekday(): Monday is 0, Sunday is 6
weekday(ord) == (ord + 6) % 7

\* date.isocalendar(): the ISO year and week are those of the week's Thursday
isocalendar(ord) ==
  LET thursday == ord - weekday(ord) + 3
      t        == Ord2Ymd(thursday)
  IN  [iso_year |-> t.y, iso_week |-> (t.doy - 1) \div 7 + 1]

\* int(d.strftime("%Y%m%d"))
DateKey(ord) ==
  LET c == Ord2Ymd(ord) IN c.y * 10000 + c.m * 100 + c.d

is_weekend_qatar_style_friday_sunday(ord) == weekday(ord) \in {4, 6}

is_weekend_qatar_style(ord) == weekday(ord) \in {4, 5}

\* date_range(start, end): the days start, start+1, ..., end, in order
date_range(start, end) == [i \in 1..(IF end >= start THEN end - start + 1 ELSE 0) |-> start + i - 1]

WeekStart(ord) == ord - weekday(ord)

\* one row of build_dim_date
DateRow(d) ==
  LET c == Ord2Ymd(d)
      iso == isocalendar(d)
  IN  [ date_key        |-> DateKey(d),
        full_date       |-> d,
        day_of_month    |-> c.d,
        month_num       |-> c.m,
        month_name      |-> MONTH_NAMES[c.m],
        quarter_num     |-> (c.m - 1) \div 3 + 1,
        year_num        |-> c.y,
        is_weekend      |-> is_weekend_qatar_style(d),
        week_start_date |-> WeekStart(d),
        iso_year        |-> iso.iso_year,
        iso_week        |-> iso.iso_week ]

(***************************************************************************)
(* Time helpers.                                                           *)
(***************************************************************************)
Clock(h, m, s) == h * 3600 + m * 60 + s

time_slot_shifted(t) ==
  IF Clock(6, 0, 0) <= t /\ t <= Clock(11, 59, 59) THEN "MORNING"
  ELSE IF Clock(12, 0, 0) <= t /\ t <= Clock(18, 59, 59) THEN "AFTERNOON"
  ELSE "NIGHT"

time_slot(t) ==
  IF Clock(6, 0, 0) <= t /\ t <= Clock(11, 59, 59) THEN "MORNING"
  ELSE IF Clock(12, 0, 0) <= t /\ t <= Clock(17, 59, 59) THEN "AFTERNOON"
  ELSE "NIGHT"

\* one row of build_dim_time
TimeRow(hour, minute) ==
  [ time_key   |-> hour * 10000 + minute * 100,
    full_time  |-> Clock(hour, minute, 0),
    hour_num   |-> hour,
    minute_num |-> minute,
    time_slot  |-> time_slot(Clock(hour, minute, 0)) ]

MinutesPerTick == 5

TicksPerHour == 60 \div MinutesPerTick

\* the rows of build_dim_time in loop order: hour 0..23, minute 0, 5, ..., 55
TimeRows ==
  [ i \in 1..(24 * TicksPerHour) |->
      TimeRow((i - 1) \div TicksPerHour, ((i - 1) % TicksPerHour) * MinutesPerTick) ]

(***************************************************************************)
(* The store.  A store holds the dw namespace (schema), the names of its   *)
(* tables and indexes (objects) and each table's rows in heap order.  Of a *)
(* dimension row the store keeps the columns load_fact reads back: the key *)
(* (date, time, customer, showing), the key and type (channel), the key    *)
(* and description (promotion).                                            *)
(***************************************************************************)
DimTables ==
  {"dim_date", "dim_time", "dim_customer", "dim_promotion", "dim_channel", "dim_showing"}

FactTable == "fact_ticket_sales"

TableNames == DimTables \cup {FactTable}

NoDb == [schema |-> FALSE, objects |-> {}, rows |-> [t \in TableNames |-> << >>]]

\* DDL_STATEMENTS, in order
DDL_STATEMENTS ==
  << [op |-> "drop_schema",   name |-> "dw",            on |-> "dw"],
     [op |-> "create_schema", name |-> "dw",            on |-> "dw"],
     [op |-> "create_table",  name |-> "dim_date",      on |-> "dw"],
     [op |-> "create_table",  name |-> "dim_time",      on |-> "dw"],
     [op |-> "create_table",  name |-> "dim_customer",  on |-> "dw"],
     [op |-> "create_table",  name |-> "dim_promotion", on |-> "dw"],
     [op |-> "create_table",  name |-> "dim_channel",   on |-> "dw"],
     [op |-> "create_table",  name |-> "dim_showing",   on |-> "dw"],
     [op |-> "create_table",  name |-> FactTable,       on |-> "dw"],
     [op |-> "create_index",  name |-> "ix_fact_date",     on |-> FactTable],
     [op |-> "create_index",  name |-> "ix_fact_showing",  on |-> FactTable],
     [op |-> "create_index",  name |-> "ix_fact_channel",  on |-> FactTable],
     [op |-> "create_index",  name |-> "ix_fact_customer", on |-> FactTable],
     [op |-> "create_index",  name |-> "ix_fact_tx",       on |-> FactTable] >>

\* the tables the fact table's REFERENCES clauses name
FactReferences == DimTables

ExecDDLIfNotExists(s, stmt) ==
  CASE stmt.op = "drop_schema" ->
         [ok |-> TRUE, store |-> s]
    [] stmt.op = "create_schema" ->
         [ok |-> TRUE, store |-> [s EXCEPT !.schema = TRUE]]
    [] stmt.op = "create_table" ->
         IF stmt.name \in s.objects
         THEN [ok |-> TRUE, store |-> s]
         ELSE [ok |-> TRUE,
               store |-> [s EXCEPT !.objects = @ \cup {stmt.name},
                                   !.rows[stmt.name] = << >>]]
    [] stmt.op = "create_index" ->
         [ok |-> TRUE, store |-> [s EXCEPT !.objects = @ \cup {stmt.name}]]

\* cur.execute(stmt) of one DDL statement on store s; "ok" is FALSE when it raises
ExecDDL(s, stmt) ==
  CASE stmt.op = "drop_schema" ->
         [ok |-> TRUE, store |-> NoDb]
    [] stmt.op = "create_schema" ->
         [ok |-> TRUE, store |-> [s EXCEPT !.schema = TRUE]]
    [] stmt.op = "create_table" ->
         IF s.schema /\ stmt.name \notin s.objects
            /\ (stmt.name = FactTable => FactReferences \subseteq s.objects)
         THEN [ok |-> TRUE,
               store |-> [s EXCEPT !.objects = @ \cup {stmt.name},
                                   !.rows[stmt.name] = << >>]]
         ELSE [ok |-> FALSE, store |-> s]
    [] stmt.op = "create_index" ->
         IF s.schema /\ stmt.on \in s.objects /\ stmt.name \notin s.objects
         THEN [ok |-> TRUE, store |-> [s EXCEPT !.objects = @ \cup {stmt.name}]]
         ELSE [ok |-> FALSE, store |-> s]

RECURSIVE ExecAll(_, _, _)
\* the loop of build_schema over stmts[i..]
ExecAll(s, stmts, i) ==
  IF i > Len(stmts) THEN [ok |-> TRUE, store |-> s]
  ELSE LET r == ExecDDL(s, stmts[i])
       IN  IF r.ok THEN ExecAll(r.store, stmts, i + 1) ELSE r

\* execute_values(cur, "INSERT INTO dw.<table> ...", rows)
InsertRows(s, table, rows) == [s EXCEPT !.rows[table] = @ \o rows]

\* the keys a BIGSERIAL column gives n rows appended to a table
SerialKeys(s, table, n) == [i \in 1..n |-> Len(s.rows[table]) + i]

\* "SELECT <key> FROM dw.<table>": the store returns the rows in an order of
\* its choosing; the model lets it return heap order or its reverse
Reverse(seq) == [i \in 1..Len(seq) |-> seq[Len(seq) + 1 - i]]

Orders == {"heap", "reverse"}

Select(s, table, order) ==
  IF order = "heap" THEN s.rows[table] ELSE Reverse(s.rows[table])

(***************************************************************************)
(* Dimension rows.                                                         *)
(***************************************************************************)
\* build_dim_promotion: the four rows, in order
PromotionRows ==
  << [description |-> "No Promotion", discount |-> 0],
     [description |-> "Discount",     discount |-> 1000],
     [description |-> "Student",      discount |-> 1500],
     [description |-> "Weekend Deal", discount |-> 1250] >>

pay_methods == << "Cash", "Card", "BenefitPay", "ApplePay", "GooglePay" >>

systems == << "iOS", "Android", "Web" >>

browsers == << "Chrome", "Safari", "Firefox", "Edge" >>

\* build_dim_channel: OFFLINE x pay method, then ONLINE x pay x system x browser
ChannelRows ==
  LET nOff == Len(pay_methods)
      nSys == Len(systems)
      nBr  == Len(browsers)
      nOn  == Len(pay_methods) * nSys * nBr
  IN  [ i \in 1..(nOff + nOn) |->
          IF i <= nOff
          THEN [channel_type |-> "OFFLINE", system_name |-> "", browser_name |-> "",
                pay_method |-> pay_methods[i]]
          ELSE LET j == i - nOff - 1
               IN  [channel_type |-> "ONLINE",
                    system_name  |-> systems[((j \div nBr) % nSys) + 1],
                    browser_name |-> browsers[(j % nBr) + 1],
                    pay_method   |-> pay_methods[(j \div (nSys * nBr)) + 1]] ]

(***************************************************************************)
(* The random generator.  A draw is u, the generator's value in [0, 1) in  *)
(* thousandths; each call maps it the way random.Random does.              *)
(***************************************************************************)
Min(a, b) == IF a <= b THEN a ELSE b

Max(a, b) == IF a >= b THEN a ELSE b

\* rng.randint(a, b)
randint(a, b, u) == a + (u * (b - a + 1)) \div 1000

\* rng.choice(seq), seq not empty
choice(seq, u) == seq[((u * Len(seq)) \div 1000) + 1]

\* rng.uniform(a, b), a and b in mills (or in thousandths of a factor)
uniform(a, b, u) == a + ((b - a) * u) \div 1000

\* round(x, 2) of x in mills, in cents; a value half-way between two cents
\* goes where its binary representation falls, up or down
round2(x, up) ==
  IF x % 10 = 5 THEN (IF up THEN (x \div 10) + 1 ELSE x \div 10)
  ELSE (x + 5) \div 10

(***************************************************************************)
(* load_fact: the body of the generation loop.                             *)
(***************************************************************************)
KeyFields == {"date", "time", "cust", "promo", "chan", "show"}

NoPools == [date |-> << >>, time |-> << >>, customer |-> << >>,
            promotion |-> << >>, channel |-> << >>, showing |-> << >>]

\* the six SELECTs of load_fact on store s
ReadPools(s, order) ==
  [ date      |-> Select(s, "dim_date", order),
    time      |-> Select(s, "dim_time", order),
    customer  |-> Select(s, "dim_customer", order),
    promotion |-> [i \in 1..Len(s.rows["dim_promotion"]) |->
                     Select(s, "dim_promotion", order)[i].promotion_key],
    channel   |-> Select(s, "dim_channel", order),
    showing   |-> Select(s, "dim_showing", order) ]

\* rng.choice raises IndexError on an empty pool
SomePoolEmpty(p) ==
  \/ p.date = << >>
  \/ p.time = << >>
  \/ p.customer = << >>
  \/ p.promotion = << >>
  \/ p.channel = << >>
  \/ p.showing = << >>

MinPrice == 10000

MarkdownChance == 350

MarkdownEligibleAny(promo_key) == promo_key >= 1

\* line 444: the promotions the markdown may apply to (promotion_key is a
\* NOT NULL serial, so "is not None" always holds)
MarkdownEligible(promo_key) == promo_key # 1

\* lines 441-445: the transaction's base price, in mills, and whether the
\* markdown was applied
BasePrice(ch_type, promo_key, d) ==
  LET b0 == uniform(20000, 80000, d.base)
      b1 == IF ch_type = "ONLINE" THEN b0 + uniform(-2000, 3000, d.pert) ELSE b0
      marked == MarkdownEligible(promo_key) /\ d.rand < MarkdownChance
  IN  [ price  |-> IF marked THEN (b1 * uniform(800, 950, d.factor)) \div 1000 ELSE b1,
        marked |-> marked ]

TicketsInTxUnclipped(remaining, d) == randint(1, 6, d.size)

\* lines 431-432
TicketsInTx(remaining, d) == Min(randint(1, 6, d.size), remaining)

\* lines 431-445: the locals of one transaction, from pools p and draws d
TxHeader(p, remaining, d) ==
  LET ch    == choice(p.channel, d.keys["chan"])
      promo == choice(p.promotion, d.keys["promo"])
      base  == BasePrice(ch.channel_type, promo, d)
  IN  [ tickets_in_tx |-> TicketsInTx(remaining, d),
        written       |-> 0,
        date_key      |-> choice(p.date, d.keys["date"]),
        time_key      |-> choice(p.time, d.keys["time"]),
        cust_key      |-> choice(p.customer, d.keys["cust"]),
        promo_key     |-> promo,
        ch_key        |-> ch.channel_key,
        ch_type       |-> ch.channel_type,
        showing_key   |-> choice(p.showing, d.keys["show"]),
        base_price    |-> base.price,
        marked        |-> base.marked ]

TicketPriceNoFloor(base_price, j) == round2(base_price + uniform(-5000, 5000, j.jit), j.up)

\* line 448: one ticket's price, in cents
TicketPrice(base_price, j) ==
  round2(Max(MinPrice, base_price + uniform(-5000, 5000, j.jit)), j.up)

TicketLineSwapped(l, price) ==
  << l.ticket_id, l.tx_id, l.tx.time_key, l.tx.date_key, l.tx.cust_key,
     l.tx.promo_key, l.tx.ch_key, l.tx.showing_key, price, 1 >>

\* lines 449-452: the line written for one ticket, as its ten columns
TicketLine(l, price) ==
  << l.ticket_id, l.tx_id, l.tx.date_key, l.tx.time_key, l.tx.cust_key,
     l.tx.promo_key, l.tx.ch_key, l.tx.showing_key, price, 1 >>

\* COPY's column list: the ten columns of a line, in order
ParseLine(line, fact_id) ==
  [ fact_id        |-> fact_id,
    ticket_id      |-> line[1],
    transaction_id |-> line[2],
    date_key       |-> line[3],
    time_key       |-> line[4],
    customer_key   |-> line[5],
    promotion_key  |-> line[6],
    channel_key    |-> line[7],
    showing_key    |-> line[8],
    ticket_price   |-> line[9],
    ticket_count   |-> line[10] ]

\* the keys of a dimension table of store s
KeysOf(s, table) ==
  LET rows == s.rows[table]
  IN  CASE table = "dim_promotion" -> {rows[i].promotion_key : i \in 1..Len(rows)}
        [] table = "dim_channel"   -> {rows[i].channel_key : i \in 1..Len(rows)}
        [] OTHER                   -> {rows[i] : i \in 1..Len(rows)}

\* the REFERENCES clauses of dw.fact_ticket_sales
ForeignKeysResolve(s, r) ==
  /\ r.date_key \in KeysOf(s, "dim_date")
  /\ r.time_key \in KeysOf(s, "dim_time")
  /\ r.customer_key \in KeysOf(s, "dim_customer")
  /\ r.promotion_key \in KeysOf(s, "dim_promotion")
  /\ r.channel_key \in KeysOf(s, "dim_channel")
  /\ r.showing_key \in KeysOf(s, "dim_showing")

CopyRowsUnflushed(s, lines) ==
  [i \in 1..(Len(lines) - 1) |-> ParseLine(lines[i], Len(s.rows[FactTable]) + i)]

\* copy_expert: the rows COPY appends to the fact table from the file's lines
CopyRows(s, lines) ==
  [i \in 1..Len(lines) |-> ParseLine(lines[i], Len(s.rows[FactTable]) + i)]

(***************************************************************************)
(* State.                                                                  *)
(***************************************************************************)
StartOrd == 735234

NoFile == [exists |-> FALSE, lines |-> << >>]

\* what a failed earlier run may have left behind
LeftoverFile ==
  [exists |-> TRUE, lines |-> << <<1, 1, 20131231, 0, 9, 1, 1, 9, 1000, 1>> >>]

NoTx ==
  [ tickets_in_tx |-> 0, written |-> 0, date_key |-> 0, time_key |-> 0, cust_key |-> 0,
    promo_key |-> 0, ch_key |-> 0, ch_type |-> "", showing_key |-> 0, base_price |-> 0,
    marked |-> FALSE ]

IdleLf == [ticket_id |-> 0, tx_id |-> 0, remaining |-> 0, tx |-> NoTx]

NoTwin == [active |-> FALSE, pools |-> NoPools, file |-> NoFile, lf |-> IdleLf]

\* a warehouse an earlier run of the generator loaded
StaleDb ==
  LET built == ExecAll(NoDb, DDL_STATEMENTS, 1).store
  IN  [built EXCEPT
         !.rows["dim_date"]      = << 20131231 >>,
         !.rows["dim_time"]      = << 0 >>,
         !.rows["dim_customer"]  = << 1, 2, 3, 4, 5, 6, 7, 8, 9 >>,
         !.rows["dim_promotion"] = << [promotion_key |-> 1, description |-> "No Promotion"] >>,
         !.rows["dim_channel"]   = << [channel_key |-> 1, channel_type |-> "OFFLINE"] >>,
         !.rows["dim_showing"]   = << 1, 2, 3, 4, 5, 6, 7, 8, 9 >>,
         !.rows[FactTable]       = << ParseLine(LeftoverFile.lines[1], 1) >> ]

InitCommon ==
  /\ pc = "build_schema"
  /\ db \in {NoDb, StaleDb}
  /\ txn = db
  /\ pools = NoPools
  /\ file \in {NoFile, LeftoverFile}
  /\ lf = IdleLf
  /\ twin = NoTwin
  /\ dim_rows = << >>

Init ==
  /\ InitCommon
  /\ args \in [ rows      : 0..MaxRows,
                customers : 0..MaxCustomers,
                showings  : {MaxShowings},
                start     : {StartOrd},
                end       : {StartOrd + MaxDays - 1} ]

(***************************************************************************)
(* main(): schema build and dimension loads.                               *)
(***************************************************************************)
\* an uncaught exception ends the process; closing the connection rolls the
\* open transaction back
Abort ==
  /\ pc' = "aborted"
  /\ txn' = db

\* execute_values raises when the table is missing or a key is already there
CanInsert(s, table, keys) ==
  /\ table \in s.objects
  /\ \A i \in 1..Len(keys) : keys[i] \notin KeysOf(s, table)
  /\ \A i, j \in 1..Len(keys) : keys[i] = keys[j] => i = j

AfterInsertNoCommit(table) ==
  CASE table = "dim_date"      -> "dim_time"
    [] table = "dim_time"      -> "dim_promotion"
    [] table = "dim_promotion" -> "dim_channel"
    [] table = "dim_channel"   -> "dim_customer"
    [] table = "dim_customer"  -> "dim_showing"
    [] table = "dim_showing"   -> "fetch"

\* main, lines 513-518: each dimension load is followed by its conn.commit()
AfterInsert(table) ==
  CASE table = "dim_date"      -> "commit_date"
    [] table = "dim_time"      -> "commit_time"
    [] table = "dim_promotion" -> "commit_promotion"
    [] table = "dim_channel"   -> "commit_channel"
    [] table = "dim_customer"  -> "commit_customer"
    [] table = "dim_showing"   -> "commit_showing"

\* build_schema, lines 477-481: the DDL statements on the connection's view
BuildSchemaResult == ExecAll(txn, DDL_STATEMENTS, 1)

\* build_schema: the DDL, the commit and the sanity check
BuildSchema ==
  /\ pc = "build_schema"
  /\ LET r == BuildSchemaResult
     IN  IF r.ok /\ FactTable \in r.store.objects
         THEN /\ txn' = r.store
              /\ db' = r.store
              /\ pc' = "dim_date"
         ELSE /\ Abort
              /\ db' = db
  /\ UNCHANGED <<args, pools, file, lf, twin, dim_rows>>

\* build_dim_date, lines 216-224: one turn of the loop over date_range
BuildDimDateRow ==
  /\ pc = "dim_date"
  /\ Len(dim_rows) < Len(date_range(args.start, args.end))
  /\ dim_rows' = Append(dim_rows, DateRow(date_range(args.start, args.end)[Len(dim_rows) + 1]))
  /\ UNCHANGED <<pc, args, db, txn, pools, file, lf, twin>>

\* build_dim_date, lines 226-234: the insert
InsertDimDate ==
  /\ pc = "dim_date"
  /\ Len(dim_rows) = Len(date_range(args.start, args.end))
  /\ LET keys == [i \in 1..Len(dim_rows) |-> dim_rows[i].date_key]
     IN  IF CanInsert(txn, "dim_date", keys)
         THEN /\ txn' = InsertRows(txn, "dim_date", keys)
              /\ pc' = AfterInsert("dim_date")
         ELSE Abort
  /\ dim_rows' = << >>
  /\ UNCHANGED <<args, db, pools, file, lf, twin>>

\* build_dim_time, lines 238-242: one turn of the loops over hour and minute
BuildDimTimeRow ==
  /\ pc = "dim_time"
  /\ Len(dim_rows) < Len(TimeRows)
  /\ dim_rows' = Append(dim_rows, TimeRows[Len(dim_rows) + 1])
  /\ UNCHANGED <<pc, args, db, txn, pools, file, lf, twin>>

\* build_dim_time, lines 244-248: the insert
InsertDimTime ==
  /\ pc = "dim_time"
  /\ Len(dim_rows) = Len(TimeRows)
  /\ LET keys == [i \in 1..Len(dim_rows) |-> dim_rows[i].time_key]
     IN  IF CanInsert(txn, "dim_time", keys)
         THEN /\ txn' = InsertRows(txn, "dim_time", keys)
              /\ pc' = AfterInsert("dim_time")
         ELSE Abort
  /\ dim_rows' = << >>
  /\ UNCHANGED <<args, db, pools, file, lf, twin>>

\* build_dim_promotion
BuildDimPromotion ==
  /\ pc = "dim_promotion"
  /\ LET keys == SerialKeys(txn, "dim_promotion", Len(PromotionRows))
         rows == [i \in 1..Len(PromotionRows) |->
                    [promotion_key |-> keys[i],
                     description   |-> PromotionRows[i].description]]
     IN  IF CanInsert(txn, "dim_promotion", keys)
         THEN /\ txn' = InsertRows(txn, "dim_promotion", rows)
              /\ pc' = AfterInsert("dim_promotion")
         ELSE Abort
  /\ UNCHANGED <<args, db, pools, file, lf, twin, dim_rows>>

\* build_dim_channel
BuildDimChannel ==
  /\ pc = "dim_channel"
  /\ LET keys == SerialKeys(txn, "dim_channel", Len(ChannelRows))
         rows == [i \in 1..Len(ChannelRows) |->
                    [channel_key  |-> keys[i],
                     channel_type |-> ChannelRows[i].channel_type]]
     IN  IF CanInsert(txn, "dim_channel", keys)
         THEN /\ txn' = InsertRows(txn, "dim_channel", rows)
              /\ pc' = AfterInsert("dim_channel")
         ELSE Abort
  /\ UNCHANGED <<args, db, pools, file, lf, twin, dim_rows>>

\* build_dim_customer: n_customers rows, customer_id 1..n, keys from the serial
BuildDimCustomer ==
  /\ pc = "dim_customer"
  /\ LET keys == SerialKeys(txn, "dim_customer", args.customers)
     IN  IF CanInsert(txn, "dim_customer", keys)
         THEN /\ txn' = InsertRows(txn, "dim_customer", keys)
              /\ pc' = AfterInsert("dim_customer")
         ELSE Abort
  /\ UNCHANGED <<args, db, pools, file, lf, twin, dim_rows>>

\* build_dim_showing: n_showings rows, showing_id 1..n, keys from the serial;
\* rng.randint(0, span_days) raises when end is before start
BuildDimShowing ==
  /\ pc = "dim_showing"
  /\ LET keys == SerialKeys(txn, "dim_showing", args.showings)
     IN  IF CanInsert(txn, "dim_showing", keys)
            /\ (args.showings > 0 => args.end >= args.start)
         THEN /\ txn' = InsertRows(txn, "dim_showing", keys)
              /\ pc' = AfterInsert("dim_showing")
         ELSE Abort
  /\ UNCHANGED <<args, db, pools, file, lf, twin, dim_rows>>

\* main, lines 513-521: what follows each conn.commit()
AfterCommit(p) ==
  CASE p = "commit_date"      -> "dim_time"
    [] p = "commit_time"      -> "dim_promotion"
    [] p = "commit_promotion" -> "dim_channel"
    [] p = "commit_channel"   -> "dim_customer"
    [] p = "commit_customer"  -> "dim_showing"
    [] p = "commit_showing"   -> "fetch"

CommitPoints ==
  {"commit_date", "commit_time", "commit_promotion", "commit_channel",
   "commit_customer", "commit_showing"}

\* main, lines 513-518: conn.commit() after a dimension load
Commit ==
  /\ pc \in CommitPoints
  /\ db' = txn
  /\ pc' = AfterCommit(pc)
  /\ UNCHANGED <<args, txn, pools, file, lf, twin, dim_rows>>

(***************************************************************************)
(* load_fact.                                                              *)
(***************************************************************************)
\* lines 402-421: the six SELECTs
FetchPools ==
  /\ pc = "fetch"
  /\ IF DimTables \subseteq txn.objects
     THEN /\ \E order \in Orders : pools' = ReadPools(txn, order)
          /\ pc' = "open"
          /\ txn' = txn
     ELSE /\ Abort
          /\ pools' = pools
  /\ UNCHANGED <<args, db, file, lf, twin, dim_rows>>

\* lines 424-429: the counters, and open("w"), which creates or empties the file
OpenStaging ==
  /\ pc = "open"
  /\ file' = [exists |-> TRUE, lines |-> << >>]
  /\ lf' = [ticket_id |-> 1, tx_id |-> 1, remaining |-> args.rows, tx |-> NoTx]
  /\ pc' = "loop"
  /\ UNCHANGED <<args, db, txn, pools, twin, dim_rows>>

\* lines 430-445: the head of one turn of the while loop, with draws from D
TxBegin(D) ==
  /\ pc = "loop"
  /\ lf.remaining > 0
  /\ IF SomePoolEmpty(pools)
     THEN /\ Abort
          /\ lf' = lf
     ELSE /\ \E d \in D.header : lf' = [lf EXCEPT !.tx = TxHeader(pools, lf.remaining, d)]
          /\ pc' = "ticket"
          /\ txn' = txn
  /\ UNCHANGED <<args, db, pools, file, twin, dim_rows>>

AfterTicketNoTxAdvance(l) ==
  IF l.tx.written + 1 < l.tx.tickets_in_tx
  THEN [l EXCEPT !.ticket_id = @ + 1, !.tx.written = @ + 1]
  ELSE [l EXCEPT !.ticket_id = @ + 1,
                 !.remaining = @ - l.tx.tickets_in_tx,
                 !.tx = NoTx]

AfterTicketTxIdFromTicket(l) ==
  IF l.tx.written + 1 < l.tx.tickets_in_tx
  THEN [l EXCEPT !.ticket_id = @ + 1, !.tx.written = @ + 1]
  ELSE [l EXCEPT !.ticket_id = @ + 1,
                 !.tx_id = l.ticket_id + 1,
                 !.remaining = @ - l.tx.tickets_in_tx,
                 !.tx = NoTx]

\* lines 447-456: the state of load_fact after one ticket's line is written;
\* the last ticket of the transaction also ends the turn of the while loop
AfterTicket(l) ==
  IF l.tx.written + 1 < l.tx.tickets_in_tx
  THEN [l EXCEPT !.ticket_id = @ + 1, !.tx.written = @ + 1]
  ELSE [l EXCEPT !.ticket_id = @ + 1,
                 !.tx_id = @ + 1,
                 !.remaining = @ - l.tx.tickets_in_tx,
                 !.tx = NoTx]

\* lines 447-456: one turn of the for loop, with draws from D
WriteTicket(D) ==
  /\ pc = "ticket"
  /\ \E j \in D.ticket :
       file' = [file EXCEPT !.lines = Append(@, TicketLine(lf, TicketPrice(lf.tx.base_price, j)))]
  /\ lf' = AfterTicket(lf)
  /\ pc' = IF lf'.tx = NoTx THEN "loop" ELSE "ticket"
  /\ UNCHANGED <<args, db, txn, pools, twin, dim_rows>>

\* line 430: the while loop ends, the with block closes the file
CloseStaging ==
  /\ pc = "loop"
  /\ lf.remaining <= 0
  /\ pc' = "copy"
  /\ UNCHANGED <<args, db, txn, pools, file, lf, twin, dim_rows>>

\* lines 459-467: COPY into the fact table, in the open transaction
CopyFact ==
  /\ pc = "copy"
  /\ LET rows == CopyRows(txn, file.lines)
     IN  IF /\ file.exists
            /\ FactTable \in txn.objects
            /\ \A i \in 1..Len(rows) : ForeignKeysResolve(txn, rows[i])
         THEN /\ txn' = InsertRows(txn, FactTable, rows)
              /\ pc' = "commit_fact"
         ELSE Abort
  /\ UNCHANGED <<args, db, pools, file, lf, twin, dim_rows>>

\* line 469
CommitFact ==
  /\ pc = "commit_fact"
  /\ db' = txn
  /\ pc' = "unlink"
  /\ UNCHANGED <<args, txn, pools, file, lf, twin, dim_rows>>

\* line 470
Unlink ==
  /\ pc = "unlink"
  /\ file' = NoFile
  /\ pc' = "count"
  /\ UNCHANGED <<args, db, txn, pools, lf, twin, dim_rows>>

\* main, lines 524-529: the count is printed and the connection closed
Finish ==
  /\ pc = "count"
  /\ pc' = "done"
  /\ UNCHANGED <<args, db, txn, pools, file, lf, twin, dim_rows>>

Running == {"build_schema", "dim_date", "dim_time", "dim_promotion", "dim_channel",
            "dim_customer", "dim_showing", "fetch", "open", "loop", "ticket", "copy",
            "commit_fact", "unlink", "count"} \cup CommitPoints

\* the statement main is about to run raises (the store is unreachable, the
\* disk is full): the process ends there
Fail ==
  /\ pc \in Running
  /\ Abort
  /\ UNCHANGED <<args, db, pools, file, lf, twin, dim_rows>>

(***************************************************************************)
(* The run of main().                                                      *)
(***************************************************************************)
KeyDraws ==
  { [f \in KeyFields |-> IF f = g THEN 999 ELSE 0] : g \in KeyFields \cup {"none"} }

SizeDraws == {0, 167, 334, 500, 667, 834}

\* the draws of the run: every transaction size, each key pool's first and
\* last element, one price
MainDraws ==
  [ header |-> { [size |-> s, keys |-> k, base |-> 500, pert |-> 500, rand |-> 0,
                  factor |-> 500] : s \in SizeDraws, k \in KeyDraws },
    ticket |-> { [jit |-> 500, up |-> FALSE] } ]

Build ==
  \/ BuildSchema
  \/ BuildDimDateRow
  \/ InsertDimDate
  \/ BuildDimTimeRow
  \/ InsertDimTime
  \/ BuildDimPromotion
  \/ BuildDimChannel
  \/ BuildDimCustomer
  \/ BuildDimShowing
  \/ Commit

Load ==
  \/ FetchPools
  \/ OpenStaging
  \/ CloseStaging
  \/ CopyFact
  \/ CommitFact
  \/ Unlink
  \/ Finish

Next ==
  \/ Build
  \/ Load
  \/ TxBegin(MainDraws)
  \/ WriteTicket(MainDraws)
  \/ Fail

Spec == Init /\ [][Next]_vars

(***************************************************************************)
(* Properties of the run.                                                  *)
(***************************************************************************)
\* load_fact has opened the staging file in this run
Opened == lf.ticket_id >= 1

Generating == pc \in {"loop", "ticket"}

Generated == pc \in {"copy", "commit_fact", "unlink"}

\* the lines of the staging file this run wrote
Lines == IF Opened THEN file.lines ELSE << >>

FactRow(i) == ParseLine(Lines[i], i)

\* C1: the generation loop writes exactly n_rows lines: while it runs the
\* budget is never negative, the lines written and the budget left add up to
\* n_rows, every transaction has at least one ticket and no more than the
\* budget, and once the loop has ended the file holds exactly n_rows lines.
C1_RowCountExact ==
  /\ Generating =>
       /\ lf.remaining >= 0
       /\ Len(file.lines) = args.rows - lf.remaining + lf.tx.written
  /\ pc = "ticket" =>
       /\ lf.tx.tickets_in_tx >= 1
       /\ lf.tx.tickets_in_tx <= lf.remaining
       /\ lf.tx.written < lf.tx.tickets_in_tx
  /\ Generated => Len(file.lines) = args.rows

\* three rows asked for, written as two transactions: one of them is smaller
\* than any size the other could share with it
C1_Witness ==
  /\ pc = "copy"
  /\ args.rows = 3
  /\ Len(file.lines) = 3
  /\ file.lines[3][2] = 2

\* C2: at every point of the generation, two lines written with the same
\* transaction id carry the same date, time, customer, promotion, channel and
\* showing keys.
C2_SharedContext ==
  \A i, j \in 1..Len(Lines) :
    Lines[i][2] = Lines[j][2] =>
      \A c \in 3..8 : Lines[i][c] = Lines[j][c]

\* a transaction of two tickets next to a transaction with another customer
C2_Witness ==
  /\ Len(Lines) = 3
  /\ Lines[1][2] = Lines[2][2]
  /\ Lines[3][2] # Lines[1][2]
  /\ Lines[3][5] # Lines[1][5]

\* C3: every line load_fact has written names, in each of its six foreign
\* keys, a row of the committed dimension table.
C3_ReferentialIntegrity ==
  \A i \in 1..Len(Lines) : ForeignKeysResolve(db, FactRow(i))

\* a line that names the last customer, the last showing's neighbour and an
\* online channel
C3_Witness ==
  /\ Len(Lines) >= 2
  /\ \E i \in 1..Len(Lines) : FactRow(i).customer_key = 2
  /\ \E i \in 1..Len(Lines) : FactRow(i).channel_key = Len(ChannelRows)
  /\ \E i \in 1..Len(Lines) : FactRow(i).date_key = DateKey(args.end)

\* the store as build_schema committed it or as a later step left it, not the
\* warehouse of an earlier run
Rebuilt == pc # "build_schema" /\ db.objects # {} /\ db # StaleDb

\* C5: once the schema is rebuilt, the committed fact table holds no row or
\* all n_rows rows, the rows of the staging file; it holds rows only after the one
\* commit of load_fact, so a run that failed before it leaves dimensions only.
C5_AllOrNothing ==
  Rebuilt =>
    /\ Len(db.rows[FactTable]) \in {0, args.rows}
    /\ db.rows[FactTable] # << >> =>
         /\ pc \in {"unlink", "count", "done", "aborted"}
         /\ \A i \in 1..Len(db.rows[FactTable]) :
              /\ db.rows[FactTable][i].ticket_id = i
              /\ file.exists => db.rows[FactTable][i] = FactRow(i)
    /\ pc \in {"fetch", "open", "loop", "ticket", "copy", "commit_fact"} =>
         db.rows[FactTable] = << >>

\* all three rows committed
C5_Witness ==
  /\ pc = "unlink"
  /\ args.rows = 3
  /\ Len(db.rows[FactTable]) = 3

\* load_fact has returned or raised after opening the staging file
LoadFactFinished ==
  \/ pc \in {"count", "done"}
  \/ pc = "aborted" /\ Opened

\* C6: after load_fact finishes, with or without an error, the staging file
\* is gone.
C6_FileRemovedAlways == LoadFactFinished => ~file.exists

\* load_fact returned and removed its file
C6_Witness == pc = "count" /\ Opened /\ ~file.exists

LoadFactSteps == {"fetch", "open", "loop", "ticket", "copy"}

DimensionsLoaded(s) ==
  /\ Len(s.rows["dim_date"]) = Len(date_range(args.start, args.end))
  /\ Len(s.rows["dim_time"]) = Len(TimeRows)
  /\ Len(s.rows["dim_promotion"]) = Len(PromotionRows)
  /\ Len(s.rows["dim_channel"]) = Len(ChannelRows)
  /\ Len(s.rows["dim_customer"]) = args.customers
  /\ Len(s.rows["dim_showing"]) = args.showings

\* C7: while load_fact reads the pools and writes its lines the schema and
\* the six dimensions are committed and the connection holds no uncommitted
\* work; every pool it holds is the committed table's keys; and each
\* dimension load starts with the loads before it committed.
C7_DimensionsCommittedFirst ==
  /\ pc \in LoadFactSteps =>
       /\ txn = db
       /\ TableNames \subseteq db.objects
       /\ DimensionsLoaded(db)
  /\ (pc \in LoadFactSteps /\ pools # NoPools) =>
       \E order \in Orders : pools = ReadPools(db, order)
  /\ pc \in {"dim_date", "dim_time", "dim_promotion", "dim_channel", "dim_customer",
              "dim_showing"} => txn = db
  /\ Lines # << >> => DimensionsLoaded(db)

\* a line is written, from pools read back
C7_Witness ==
  /\ pc = "ticket"
  /\ Len(Lines) = 1
  /\ pools.time = Reverse(db.rows["dim_time"])

\* build_dim_time has appended its last row and is about to insert
TimeBuilt == pc = "dim_time" /\ Len(dim_rows) = Len(TimeRows)

\* the maximal runs of consecutive rows (in time order) with one time_slot
SlotRuns ==
  1 + Cardinality({i \in 1..(Len(dim_rows) - 1) :
                     dim_rows[i].time_slot # dim_rows[i + 1].time_slot})

TimeRowsDistinct ==
  /\ Len(dim_rows) = 288
  /\ Cardinality({<<dim_rows[i].hour_num, dim_rows[i].minute_num>> : i \in 1..Len(dim_rows)}) = 288
  /\ Cardinality({dim_rows[i].time_key : i \in 1..Len(dim_rows)}) = 288
  /\ \A i \in 1..(Len(dim_rows) - 1) : dim_rows[i].full_time < dim_rows[i + 1].full_time

\* C8 as stated: 288 distinct rows, and the day is split into exactly three
\* contiguous ranges, one for each of MORNING, AFTERNOON and NIGHT.
C8_ThreeRanges ==
  TimeBuilt =>
    /\ TimeRowsDistinct
    /\ {dim_rows[i].time_slot : i \in 1..Len(dim_rows)} = {"MORNING", "AFTERNOON", "NIGHT"}
    /\ SlotRuns = 3

\* C8, amended: 288 rows with distinct (hour, minute) pairs and distinct keys;
\* time_slot labels the day in four contiguous ranges, NIGHT 00:00-05:59:59,
\* MORNING 06:00-11:59:59, AFTERNOON 12:00-17:59:59 and NIGHT 18:00-23:59:59:
\* three labels, of which NIGHT covers two ranges that meet only at midnight.
C8_FourRanges ==
  /\ \A i \in 1..Len(dim_rows) :
       pc = "dim_time" =>
         /\ dim_rows[i].hour_num \in 0..23
         /\ dim_rows[i].minute_num \in {0, 5, 10, 15, 20, 25, 30, 35, 40, 45, 50, 55}
         /\ dim_rows[i].time_key = dim_rows[i].hour_num * 10000 + dim_rows[i].minute_num * 100
         /\ dim_rows[i].time_slot =
              (IF dim_rows[i].hour_num < 6 THEN "NIGHT"
               ELSE IF dim_rows[i].hour_num < 12 THEN "MORNING"
               ELSE IF dim_rows[i].hour_num < 18 THEN "AFTERNOON"
               ELSE "NIGHT")
  /\ TimeBuilt =>
       /\ TimeRowsDistinct
       /\ SlotRuns = 4

\* the 288 rows are built
C8_Witness ==
  /\ TimeBuilt
  /\ dim_rows[1].time_slot = "NIGHT"
  /\ dim_rows[288].time_slot = "NIGHT"
  /\ dim_rows[100].time_slot = "MORNING"

(***************************************************************************)
(* build_dim_date over a choice of date ranges: the run of main() up to    *)
(* the commit of the date dimension.                                       *)
(***************************************************************************)
\* Wednesday 2014-01-01, Monday 2014-12-29 (the range crosses the year's
\* end), Saturday 2016-02-27 (the range crosses a leap day)
StartDates == {StartOrd, 735596, 736021}

InitDate ==
  /\ InitCommon
  /\ args \in { [rows |-> 0, customers |-> 0, showings |-> 0, start |-> s, end |-> s + n - 1] :
                  s \in StartDates, n \in 0..MaxSpan }

NextDate ==
  \/ BuildSchema
  \/ BuildDimDateRow
  \/ InsertDimDate
  \/ Commit

SpecDate == InitDate /\ [][NextDate]_vars

\* build_dim_date has appended its last row and is about to insert
DateBuilt == pc = "dim_date" /\ Len(dim_rows) = Len(date_range(args.start, args.end))

\* the day of the week of an ordinal, from 0001-01-01 being a Monday
IsMonday(ord) == ord % 7 = 1

IsFriday(ord) == ord % 7 = 5

IsSaturday(ord) == ord % 7 = 6

\* C9: build_dim_date emits one row for each day of start..end, in order,
\* and in each row week_start_date is a Monday, is not after full_date and is
\* less than 7 days before it, and is_weekend holds exactly on Fridays and
\* Saturdays.
C9_DateRows ==
  pc = "dim_date" =>
    /\ \A i \in 1..Len(dim_rows) :
         /\ dim_rows[i].full_date = args.start + i - 1
         /\ dim_rows[i].full_date <= args.end
         /\ dim_rows[i].week_start_date <= dim_rows[i].full_date
         /\ dim_rows[i].full_date - dim_rows[i].week_start_date < 7
         /\ IsMonday(dim_rows[i].week_start_date)
         /\ dim_rows[i].is_weekend <=>
              (IsFriday(dim_rows[i].full_date) \/ IsSaturday(dim_rows[i].full_date))
    /\ DateBuilt =>
         \A d \in args.start..args.end :
           Cardinality({i \in 1..Len(dim_rows) : dim_rows[i].full_date = d}) = 1

\* eight days from Saturday 2016-02-27, across the leap day into March
C9_Witness ==
  /\ DateBuilt
  /\ Len(dim_rows) = 8
  /\ dim_rows[1].is_weekend
  /\ ~dim_rows[2].is_weekend
  /\ dim_rows[3].date_key = 20160229
  /\ dim_rows[4].date_key = 20160301
  /\ dim_rows[7].is_weekend

(***************************************************************************)
(* The run of main() with the draws that decide prices: one transaction    *)
(* takes the whole budget, on the first or last promotion and channel, and *)
(* the price draws take the ends of their ranges.                          *)
(***************************************************************************)
PriceKeyDraws ==
  { [f \in KeyFields |-> IF f = "promo" THEN p ELSE IF f = "chan" THEN c ELSE 0] :
      p \in {0, 999}, c \in {0, 999} }

PriceDraws ==
  [ header |-> { [size |-> 834, keys |-> k, base |-> b, pert |-> p, rand |-> r,
                  factor |-> f] :
                   k \in PriceKeyDraws, b \in {0, 999}, p \in {0, 999},
                   r \in {349, 350}, f \in {0, 999} },
    ticket |-> { [jit |-> j, up |-> u] : j \in {0, 500, 999}, u \in BOOLEAN } ]

NextPrice ==
  \/ Build
  \/ Load
  \/ TxBegin(PriceDraws)
  \/ WriteTicket(PriceDraws)
  \/ Fail

SpecPrice == Init /\ [][NextPrice]_vars

Abs(x) == IF x >= 0 THEN x ELSE 0 - x

\* C10: every ticket price is at least 10.00; two tickets of one transaction
\* differ in price by at most 10.00; and every price of the transaction being
\* written is max(10.00, base_price + jitter), jitter in [-5, 5), rounded to
\* the cent.  (Prices in cents, base_price in mills.)
C10_PriceBand ==
  /\ \A i \in 1..Len(Lines) : Lines[i][9] >= 1000
  /\ \A i, j \in 1..Len(Lines) :
       Lines[i][2] = Lines[j][2] => Abs(Lines[i][9] - Lines[j][9]) <= 1000
  /\ pc = "ticket" =>
       \A i \in 1..Len(Lines) :
         Lines[i][2] = lf.tx_id =>
           /\ 10 * Lines[i][9] >= Max(10000, lf.tx.base_price - 5000) - 5
           /\ 10 * Lines[i][9] <= Max(10000, lf.tx.base_price + 5000) + 5

\* a marked-down online transaction whose lowest jitter is lifted to 10.00
\* beside a ticket more than 9.00 dearer
C10_Witness ==
  /\ pc = "ticket"
  /\ lf.tx.base_price < 15000
  /\ \E i, j \in 1..Len(Lines) :
       /\ Lines[i][2] = Lines[j][2]
       /\ Lines[i][9] = 1000
       /\ Lines[j][9] - Lines[i][9] > 900

(***************************************************************************)
(* Two independent runs of the generator on one seed and one command line. *)
(* Up to load_fact a run draws and inserts the same rows whatever the      *)
(* store does, so the two runs share the model's state up to there; from   *)
(* the SELECTs on, the second run has its own pools, counters and staging  *)
(* file (twin).  One seed gives both runs one stream of draws: the n-th    *)
(* call of the second run gets the draw the n-th call of the first got.    *)
(* The draws below keep both runs on an online channel and a discount      *)
(* promotion, so both make the same calls in the same order.               *)
(***************************************************************************)
ReproKeyDraws ==
  { [f \in KeyFields |-> IF f \in {"promo", "chan"} THEN 500 ELSE IF f = g THEN 999 ELSE 0] :
      g \in {"date", "time", "cust", "show", "none"} }

ReproDraws ==
  [ header |-> { [size |-> s, keys |-> k, base |-> 500, pert |-> 500, rand |-> r,
                  factor |-> 500] : s \in SizeDraws, k \in ReproKeyDraws, r \in {0, 999} },
    ticket |-> { [jit |-> 500, up |-> FALSE] } ]

\* lines 402-421 in both runs: each store returns its rows in its own order
FetchPoolsBoth ==
  /\ pc = "fetch"
  /\ \E o1 \in Orders, o2 \in Orders :
       /\ pools' = ReadPools(txn, o1)
       /\ twin' = [twin EXCEPT !.active = TRUE, !.pools = ReadPools(txn, o2)]
  /\ pc' = "open"
  /\ UNCHANGED <<args, db, txn, file, lf, dim_rows>>

\* lines 424-429 in both runs
OpenStagingBoth ==
  /\ pc = "open"
  /\ file' = [exists |-> TRUE, lines |-> << >>]
  /\ lf' = [ticket_id |-> 1, tx_id |-> 1, remaining |-> args.rows, tx |-> NoTx]
  /\ twin' = [twin EXCEPT !.file = [exists |-> TRUE, lines |-> << >>],
                          !.lf = [ticket_id |-> 1, tx_id |-> 1, remaining |-> args.rows,
                                  tx |-> NoTx]]
  /\ pc' = "loop"
  /\ UNCHANGED <<args, db, txn, pools, dim_rows>>

\* lines 430-445 in both runs, on the same draws
TxBeginBoth(D) ==
  /\ pc = "loop"
  /\ lf.remaining > 0
  /\ IF SomePoolEmpty(pools)
     THEN /\ Abort
          /\ UNCHANGED <<lf, twin>>
     ELSE /\ \E d \in D.header :
               /\ lf' = [lf EXCEPT !.tx = TxHeader(pools, lf.remaining, d)]
               /\ twin' = [twin EXCEPT !.lf.tx = TxHeader(twin.pools, twin.lf.remaining, d)]
          /\ pc' = "ticket"
          /\ txn' = txn
  /\ UNCHANGED <<args, db, pools, file, dim_rows>>

\* lines 447-456 in both runs, on the same draws
WriteTicketBoth(D) ==
  /\ pc = "ticket"
  /\ \E j \in D.ticket :
       /\ file' = [file EXCEPT
                     !.lines = Append(@, TicketLine(lf, TicketPrice(lf.tx.base_price, j)))]
       /\ twin' = [twin EXCEPT
                     !.file.lines = Append(@, TicketLine(twin.lf,
                                                 TicketPrice(twin.lf.tx.base_price, j))),
                     !.lf = AfterTicket(twin.lf)]
  /\ lf' = AfterTicket(lf)
  /\ pc' = IF lf'.tx = NoTx THEN "loop" ELSE "ticket"
  /\ UNCHANGED <<args, db, txn, pools, dim_rows>>

NextRepro ==
  \/ Build
  \/ FetchPoolsBoth
  \/ OpenStagingBoth
  \/ TxBeginBoth(ReproDraws)
  \/ WriteTicketBoth(ReproDraws)
  \/ CloseStaging

SpecRepro == Init /\ [][NextRepro]_vars

\* both runs make the same calls of the generator: the same channel type and
\* the same markdown decision in every transaction, the same counters
DrawsAligned ==
  twin.active =>
    /\ twin.lf.tx.ch_type = lf.tx.ch_type
    /\ twin.lf.tx.marked = lf.tx.marked
    /\ twin.lf.tx.tickets_in_tx = lf.tx.tickets_in_tx
    /\ twin.lf.ticket_id = lf.ticket_id
    /\ twin.lf.tx_id = lf.tx_id
    /\ twin.lf.remaining = lf.remaining

\* C4: two runs on the same seed, row count, population sizes and date range
\* write the same sequence of fact lines, whatever order each store returned
\* its dimension keys in.
C4_Reproducible == twin.active => twin.file.lines = file.lines

\* both runs wrote their row; the stores returned the pools in different orders
C4_Witness ==
  /\ twin.active
  /\ pc = "copy"
  /\ args.rows = 1
  /\ twin.pools # pools
  /\ Len(file.lines) = 1
  /\ Len(twin.file.lines) = 1

(***************************************************************************)
(* The generator run again and again on one store: a run that has ended,   *)
(* normally or by an exception, is followed by another with the same       *)
(* command line.  The store and the staging file are what the earlier run  *)
(* left; the process starts afresh.                                        *)
(***************************************************************************)
\* main, lines 505-510: a new process connects and calls build_schema
Restart ==
  /\ pc \in {"done", "aborted"}
  /\ pc' = "build_schema"
  /\ txn' = db
  /\ pools' = NoPools
  /\ lf' = IdleLf
  /\ dim_rows' = << >>
  /\ UNCHANGED <<args, db, file, twin>>

\* the draws of a run: a transaction of one ticket or of six, first keys
RerunDraws ==
  [ header |-> { [size |-> s, keys |-> [f \in KeyFields |-> 0], base |-> 500, pert |-> 500,
                  rand |-> 0, factor |-> 500] : s \in {0, 999} },
    ticket |-> { [jit |-> 500, up |-> FALSE] } ]

NextRerun ==
  \/ Build
  \/ Load
  \/ TxBegin(RerunDraws)
  \/ WriteTicket(RerunDraws)
  \/ Fail
  \/ Restart

SpecRerun == Init /\ [][NextRerun]_vars

\* the objects section 3 of the specification puts in the dw namespace
SchemaTables ==
  {"dim_date", "dim_time", "dim_customer", "dim_promotion", "dim_channel", "dim_showing",
   "fact_ticket_sales"}

SchemaIndexes ==
  {"ix_fact_date", "ix_fact_showing", "ix_fact_channel", "ix_fact_customer", "ix_fact_tx"}

\* build_schema has just returned
SchemaBuilt == pc = "dim_date"

\* C11: whatever store build_schema started from (no dw schema, an empty one
\* left by a run that failed right after build_schema, one that earlier runs
\* loaded in part or in full), when it returns the committed dw namespace
\* holds exactly the six dimension tables, the fact table and the five fact
\* indexes, every table is empty, nothing is left uncommitted, and running
\* the DDL statements once more on that store succeeds and gives that store
\* again.
C11_SchemaRebuilt ==
  SchemaBuilt =>
    /\ db.schema
    /\ db.objects = SchemaTables \cup SchemaIndexes
    /\ \A t \in SchemaTables : db.rows[t] = << >>
    /\ txn = db
    /\ LET again == ExecAll(db, DDL_STATEMENTS, 1)
       IN  again.ok /\ again.store = db

\* build_schema has returned in a run on the store of an earlier run that
\* loaded the six dimensions and failed after writing its staging file
C11_Witness ==
  /\ SchemaBuilt
  /\ file.exists
  /\ Len(file.lines) >= 1
  /\ file.lines[1][3] = DateKey(args.start)
  /\ \A t \in SchemaTables : db.rows[t] = << >>

(***************************************************************************)
(* The run of main() with the draws that decide the markdown: transactions *)
(* of one ticket on each of the four promotions, the probability draw just *)
(* below and just at 0.35.                                                 *)
(***************************************************************************)
PromoKeyDraws ==
  { [f \in KeyFields |-> IF f = "promo" THEN p ELSE 0] : p \in {0, 250, 500, 750} }

PromoDraws ==
  [ header |-> { [size |-> 0, keys |-> k, base |-> 500, pert |-> 500, rand |-> r,
                  factor |-> 500] : k \in PromoKeyDraws, r \in {349, 350} },
    ticket |-> { [jit |-> 500, up |-> FALSE] } ]

NextPromo ==
  \/ Build
  \/ Load
  \/ TxBegin(PromoDraws)
  \/ WriteTicket(PromoDraws)
  \/ Fail

SpecPromo == Init /\ [][NextPromo]_vars

\* the description of the committed promotion row with the given key
PromotionDescription(s, promo_key) ==
  LET rows == s.rows["dim_promotion"]
  IN  rows[CHOOSE i \in 1..Len(rows) : rows[i].promotion_key = promo_key].description

DiscountPromotions == {"Discount", "Student", "Weekend Deal"}

\* C12: in a transaction load_fact has begun, the markdown was not applied
\* when the sampled promotion is the 'No Promotion' row of the promotion
\* dimension, and the markdown can apply (it does whenever the probability
\* draw is below 0.35) when the promotion is one of the three discounts.
C12_MarkdownOnlyDiscount ==
  pc = "ticket" =>
    LET description == PromotionDescription(db, lf.tx.promo_key)
    IN  /\ description = "No Promotion" => ~lf.tx.marked
        /\ description \in DiscountPromotions => MarkdownEligible(lf.tx.promo_key)
        /\ lf.tx.marked => description \in DiscountPromotions

\* a 'No Promotion' transaction was written and a 'Student' transaction has
\* the markdown applied
C12_Witness ==
  /\ pc = "ticket"
  /\ PromotionDescription(db, lf.tx.promo_key) = "Student"
  /\ lf.tx.marked
  /\ \E i \in 1..Len(Lines) :
       PromotionDescription(db, Lines[i][6]) = "No Promotion"

(***************************************************************************)
(* The run of main() with a row budget that holds more than one full       *)
(* transaction: every transaction size, first keys, one price.             *)
(***************************************************************************)
InitTickets ==
  /\ InitCommon
  /\ args \in [ rows      : 0..MaxTickets,
                customers : {MaxCustomers},
                showings  : {MaxShowings},
                start     : {StartOrd},
                end       : {StartOrd + MaxDays - 1} ]

TicketDraws ==
  [ header |-> { [size |-> s, keys |-> [f \in KeyFields |-> 0], base |-> 500, pert |-> 500,
                  rand |-> 0, factor |-> 500] : s \in SizeDraws },
    ticket |-> { [jit |-> 500, up |-> FALSE] } ]

NextTickets ==
  \/ Build
  \/ Load
  \/ TxBegin(TicketDraws)
  \/ WriteTicket(TicketDraws)
  \/ Fail

SpecTickets == InitTickets /\ [][NextTickets]_vars

\* the number of lines written so far that carry transaction id t
TicketsOf(t) == Cardinality({ i \in 1..Len(Lines) : Lines[i][2] = t })

\* C13: the i-th line written carries ticket id i and ticket_count 1; the
\* first line carries transaction id 1 and each later line the transaction
\* id of the line before it or that id plus one (no gaps, a transaction's
\* tickets are consecutive lines); no transaction id is on more than six
\* lines; between transactions the counter is one past the last id written;
\* and when the loop has ended the ticket ids are exactly 1..n_rows.
C13_TicketOrder ==
  /\ \A i \in 1..Len(Lines) :
       /\ Lines[i][1] = i
       /\ Lines[i][10] = 1
       /\ TicketsOf(Lines[i][2]) \in 1..6
  /\ Len(Lines) >= 1 => Lines[1][2] = 1
  /\ \A i \in 1..(Len(Lines) - 1) :
       Lines[i + 1][2] \in {Lines[i][2], Lines[i][2] + 1}
  /\ (pc = "loop" /\ Len(Lines) >= 1) => lf.tx_id = Lines[Len(Lines)][2] + 1
  /\ pc = "ticket" =>
       /\ lf.tx.tickets_in_tx \in 1..6
       /\ TicketsOf(lf.tx_id) = lf.tx.written
  /\ Generated => Len(Lines) = args.rows

\* the loop has ended on a full budget: a transaction of six tickets, then
\* one of one ticket, then a third
C13_Witness ==
  /\ pc = "copy"
  /\ Len(Lines) = MaxTickets
  /\ Lines[6][2] = 1
  /\ Lines[7][2] = 2
  /\ Lines[8][2] = 3

====
